---- MODULE Spec2Model ----
(***************************************************************************)
(* Formwerk: checkbox / checkbox group, radio group, number field and form  *)
(* state.                                                                  *)
(*                                                                         *)
(* Independent state machines share this module:                           *)
(*   SpecCheckbox   useCheckbox + useCheckboxGroup, value toggling         *)
(*   SpecDisabled   useCheckbox with disabled props of its own / the group *)
(*   SpecGroup      useCheckboxGroup registration and groupState           *)
(*   SpecRadio      useRadioGroup arrow navigation                         *)
(*   SpecRadioKeys  useRadioGroup keydown handler                          *)
(*   SpecRegistry   the registries of both groups                          *)
(*   SpecNumber     useNumberField value and displayed text                *)
(*   SpecBeforeinput  useNumberField beforeinput handler                   *)
(*   SpecValidity   errorMessage and aria-invalid                          *)
(*   SpecConfig     configure / getConfig and the form's fallback on it    *)
(*   SpecForm       useForm values, touched and errors                     *)
(*   SpecSubmit     useForm setup, mounting, submit and formdata           *)
(* Each specification drives its own variables and leaves the others at    *)
(* their idle values.                                                      *)
(***************************************************************************)
EXTENDS Integers, Sequences, FiniteSets, TLC

VARIABLES
    hasGroup,     \* inject(CheckboxGroupKey, null) returned a group
    cbProps,      \* per checkbox: trueValue, falseValue, disabled, indeterminate
    cbField,      \* per checkbox: the standalone fieldValue ref
    groupValue,   \* the checkbox group's fieldValue: [def, arr]
    cbLast,       \* the last checkbox operation and what held before it
    radios,       \* useRadioGroup: the registration list
    radioMounted, \* radios whose component is mounted
    radioDisabled,\* radios whose isDisabled() is true
    radioValue,   \* useRadioGroup: fieldValue
    radioLast,    \* the last radio group operation
    radioDir,     \* useRadioGroup: the dir prop
    checkboxes,   \* useCheckboxGroup: the registration list
    cbMounted,    \* checkboxes whose component is mounted
    groupDisabled,\* useCheckboxGroup: the disabled prop
    cbDisabledUnset, \* checkboxes whose own disabled prop is absent (or a plain false)
    radioError,   \* useRadioGroup: errorMessage of useInputValidity
    numValue,     \* useNumberField: fieldValue, [kind, n]
    numMin,       \* useNumberField: the min prop, [set, n]
    numMax,       \* useNumberField: the max prop, [set, n]
    numError,     \* useNumberField: errorMessage of useInputValidity
    numLast,      \* the last number field operation
    numText,      \* useNumberField: the text in the input element
    numTick,      \* useNumberField: a nextTick callback of onChange is queued
    currentConfig,\* config: the object currentConfig.value refers to
    cfgHeap,      \* config: the nested objects the config objects refer to
    heldConfig,   \* a config object a caller got from getConfig() and kept
    heldView,     \* what that object held when it was obtained
    formHtmlOpt,  \* useForm: opts.disableHtmlValidation
    cfgLast,      \* the last config operation
    formMode,     \* useForm: ctx.getValidationMode()
    formPc,       \* useForm: how far setup and mounting have come
    mountHooks,   \* useForm: the hooks given to onMounted
    mountRequests,\* requestValidation calls made by the mounted hook
    formOut,      \* the form element's __formOut
    formData,     \* the FormData of the last formdata event
    initialValues,\* useForm: opts.initialValues
    heap,         \* useForm: the objects behind values and originals
    valuesRef,    \* useForm: the object `values` refers to
    originalsRef, \* useForm: the object valuesSnapshot.originals refers to
    touched,      \* useForm: touched tree
    errors,       \* useForm: errors tree
    formLast      \* the last form operation

cbVars == <<hasGroup, cbProps, cbField, groupValue, cbLast>>
radioVars == <<radios, radioMounted, radioDisabled, radioValue, radioLast, radioDir, radioError>>
formVars == <<initialValues, heap, valuesRef, originalsRef, touched, errors, formLast>>
groupVars == <<checkboxes, cbMounted, groupDisabled, cbDisabledUnset>>
numVars == <<numValue, numMin, numMax, numError, numLast, numText, numTick>>
cfgVars == <<currentConfig, cfgHeap, heldConfig, heldView, formHtmlOpt, cfgLast>>
submitVars == <<formMode, formPc, mountHooks, mountRequests, formOut, formData>>
vars == <<cbVars, radioVars, formVars, groupVars, numVars, cfgVars, submitVars>>

\* JavaScript undefined (values are modelled as strings)
Undefined == "undefined"

(***************************************************************************)
(* Bounds                                                                  *)
(***************************************************************************)
\* checkboxes registered in the group
NumBoxes == 2
\* radios that can register with the radio group
NumRadios == 3
\* longest list of messages setFieldErrors is given
MaxErrors == 2
\* number field values, bounds and texts range over -MaxNum .. MaxNum
MaxNum == 2
\* longest text the input element holds while typing
MaxTextLen == 3

(***************************************************************************)
(* Shared helpers (utils/common)                                           *)
(***************************************************************************)
\* deep equality of two values
isEqual(a, b) == a = b

\* an omitted `force?: boolean` argument
Omitted == "omitted"
ForceArgs == {Omitted, "forceTrue", "forceFalse"}
BoolArg(v) == IF v THEN "forceTrue" ELSE "forceFalse"

\* force ?? dflt
Nullish(force, dflt) == IF force = Omitted THEN dflt ELSE force = "forceTrue"

RECURSIVE RemoveAll(_, _)
RemoveAll(s, v) ==
    IF s = <<>> THEN <<>>
    ELSE IF isEqual(Head(s), v) THEN RemoveAll(Tail(s), v)
    ELSE <<Head(s)>> \o RemoveAll(Tail(s), v)

\* toggleValueSelection(current, value, force): value is a member of the
\* result exactly when force (or, with force omitted, its absence before) says so
toggleValueSelection(current, value, force) ==
    LET present == \E i \in DOMAIN current : isEqual(current[i], value)
        shouldAdd == Nullish(force, ~present)
    IN  IF shouldAdd
        THEN IF present THEN current ELSE Append(current, value)
        ELSE RemoveAll(current, value)

(***************************************************************************)
(* useCheckboxGroup                                                        *)
(***************************************************************************)
\* fieldValue.value ?? []
GroupArr(gv) == IF gv.def THEN gv.arr ELSE <<>>

\* ignores force
GroupToggleValueNoForce(gv, value, force) ==
    [def |-> TRUE, arr |-> toggleValueSelection(GroupArr(gv), value, Omitted)]

\* toggleValue(value, force): the group's next fieldValue
GroupToggleValue(gv, value, force) ==
    [def |-> TRUE, arr |-> toggleValueSelection(GroupArr(gv), value, force)]

\* looks at the first element only
hasValueFirstOnly(gv, value) ==
    GroupArr(gv) # <<>> /\ isEqual(GroupArr(gv)[1], value)

\* hasValue(value)
hasValue(gv, value) ==
    \E i \in DOMAIN GroupArr(gv) : isEqual(GroupArr(gv)[i], value)

(***************************************************************************)
(* useCheckbox                                                             *)
(***************************************************************************)
Boxes == 1 .. NumBoxes
\* a standalone run has one checkbox, a grouped run NumBoxes of them
ActiveBoxes == IF hasGroup THEN Boxes ELSE {1}

TrueValueProps == {Undefined, "a"}
FalseValueProps == {Undefined, "off"}
\* what a model update can assign to a standalone checkbox
FieldValues == {"true", "false", "a", "off", "z"}
\* what the group's array can hold
GroupValues == {"true", "a"}

getTrueValue(p) == IF p.trueValue = Undefined THEN "true" ELSE p.trueValue
getFalseValue(p) == IF p.falseValue = Undefined THEN "false" ELSE p.falseValue

\* useFieldValue(getFalseValue()).fieldValue
InitialFieldValue(p) == getFalseValue(p)

\* checked.get()
checked(b) ==
    IF hasGroup
    THEN hasValue(groupValue, getTrueValue(cbProps[b]))
    ELSE cbField[b] = getTrueValue(cbProps[b])

\* isDisabled(): toValue(props.disabled || group?.disabled) ?? false
isDisabled(b) ==
    IF b \in cbDisabledUnset
    THEN hasGroup /\ groupDisabled
    ELSE cbProps[b].disabled

\* fieldValue.value = v
FieldValueSet(b, v) ==
    IF hasGroup
    THEN /\ groupValue' = GroupToggleValue(groupValue, getTrueValue(cbProps[b]), Omitted)
         /\ UNCHANGED cbField
    ELSE /\ cbField' = [cbField EXCEPT ![b] = v]
         /\ UNCHANGED groupValue

\* no indeterminate guard
toggleValueUnguarded(b, force) ==
    LET shouldTrue == Nullish(force, ~checked(b))
    IN  FieldValueSet(b, IF shouldTrue THEN getTrueValue(cbProps[b])
                                       ELSE getFalseValue(cbProps[b]))

\* the negation of checked.value is lost
toggleValueNoNegate(b, force) ==
    IF cbProps[b].indeterminate
    THEN UNCHANGED <<cbField, groupValue>>
    ELSE LET shouldTrue == Nullish(force, checked(b))
         IN  FieldValueSet(b, IF shouldTrue THEN getTrueValue(cbProps[b])
                                            ELSE getFalseValue(cbProps[b]))

\* toggleValue(force)
toggleValue(b, force) ==
    IF cbProps[b].indeterminate
    THEN UNCHANGED <<cbField, groupValue>>
    ELSE LET shouldTrue == Nullish(force, ~checked(b))
         IN  FieldValueSet(b, IF shouldTrue THEN getTrueValue(cbProps[b])
                                            ELSE getFalseValue(cbProps[b]))

\* setChecked(force)
setChecked(b, force) ==
    IF cbProps[b].indeterminate
    THEN UNCHANGED <<cbField, groupValue>>
    ELSE IF hasGroup
         THEN /\ groupValue' = GroupToggleValue(groupValue, getTrueValue(cbProps[b]), force)
              /\ UNCHANGED cbField
         ELSE UNCHANGED <<cbField, groupValue>>

CbOp(op, b, arg) ==
    /\ cbLast' = [op |-> op, box |-> b, arg |-> arg, pre |-> checked(b), val |-> Undefined]
    /\ UNCHANGED <<radioVars, formVars, groupVars, numVars, cfgVars, submitVars>>

\* onClick
Click(b) ==
    /\ b \in ActiveBoxes
    /\ IF cbProps[b].disabled \/ cbProps[b].indeterminate
       THEN UNCHANGED <<cbField, groupValue>>
       ELSE toggleValue(b, Omitted)
    /\ CbOp("click", b, Omitted)
    /\ UNCHANGED <<hasGroup, cbProps>>

\* onKeydown
Keydown(b, code) ==
    /\ b \in ActiveBoxes
    /\ IF cbProps[b].disabled
       THEN UNCHANGED <<cbField, groupValue>>
       ELSE IF code = "Space"
            THEN toggleValue(b, Omitted)
            ELSE UNCHANGED <<cbField, groupValue>>
    /\ CbOp("keydown", b, code)
    /\ UNCHANGED <<hasGroup, cbProps>>

\* the returned toggleValue
CallToggleValue(b, force) ==
    /\ b \in ActiveBoxes
    /\ toggleValue(b, force)
    /\ CbOp("toggleValue", b, force)
    /\ UNCHANGED <<hasGroup, cbProps>>

\* the returned setChecked
CallSetChecked(b, force) ==
    /\ b \in ActiveBoxes
    /\ setChecked(b, force)
    /\ CbOp("setChecked", b, force)
    /\ UNCHANGED <<hasGroup, cbProps>>

\* isChecked.value = v: checked.set(value)
AssignIsChecked(b, v) ==
    /\ b \in ActiveBoxes
    /\ setChecked(b, BoolArg(v))
    /\ CbOp("assignIsChecked", b, BoolArg(v))
    /\ UNCHANGED <<hasGroup, cbProps>>

\* the indeterminate / disabled props change
SetIndeterminate(b, v) ==
    /\ b \in ActiveBoxes
    /\ cbProps[b].indeterminate # v
    /\ cbProps' = [cbProps EXCEPT ![b].indeterminate = v]
    /\ CbOp("props", b, Omitted)
    /\ UNCHANGED <<hasGroup, cbField, groupValue>>

SetDisabled(b, v) ==
    /\ b \in ActiveBoxes
    /\ b \notin cbDisabledUnset
    /\ cbProps[b].disabled # v
    /\ cbProps' = [cbProps EXCEPT ![b].disabled = v]
    /\ CbOp("props", b, Omitted)
    /\ UNCHANGED <<hasGroup, cbField, groupValue>>

\* useSyncModel: onModelPropUpdated(value) of a standalone checkbox
ModelPropUpdated(v) ==
    /\ ~hasGroup
    /\ cbField' = [cbField EXCEPT ![1] = v]
    /\ CbOp("model", 1, Omitted)
    /\ UNCHANGED <<hasGroup, cbProps, groupValue>>

\* a selection: each value at most once
AssignSeqs ==
    {s \in UNION {[1 .. n -> GroupValues] : n \in 0 .. Cardinality(GroupValues)} :
        \A i, j \in DOMAIN s : s[i] = s[j] => i = j}

\* the group's value is assigned from outside (v-model, setValue)
GroupAssign(arr) ==
    /\ hasGroup
    /\ groupValue' = [def |-> TRUE, arr |-> arr]
    /\ CbOp("groupAssign", 1, Omitted)
    /\ UNCHANGED <<hasGroup, cbProps, cbField>>

\* the group's toggleValue(value, force) called through the context
CallGroupToggleValue(value, force) ==
    /\ hasGroup
    /\ groupValue' = GroupToggleValue(groupValue, value, force)
    /\ cbLast' = [op |-> "groupToggle", box |-> 1, arg |-> force,
                  pre |-> hasValue(groupValue, value), val |-> value]
    /\ UNCHANGED <<hasGroup, cbProps, cbField, radioVars, formVars, groupVars, numVars, cfgVars, submitVars>>

NumIdle ==
    /\ numValue = [kind |-> "undef", n |-> 0]
    /\ numMin = [set |-> FALSE, n |-> 0]
    /\ numMax = [set |-> FALSE, n |-> 0]
    /\ numError = ""
    /\ numLast = [op |-> "idle"]
    /\ numText = <<>>
    /\ numTick = FALSE

GroupIdle ==
    /\ checkboxes = <<>>
    /\ cbMounted = {}
    /\ groupDisabled = FALSE
    /\ cbDisabledUnset = {}

CbIdle ==
    /\ GroupIdle
    /\ hasGroup = FALSE
    /\ cbProps = [b \in Boxes |-> [trueValue |-> Undefined, falseValue |-> Undefined,
                                   disabled |-> FALSE, indeterminate |-> FALSE]]
    /\ cbField = [b \in Boxes |-> Undefined]
    /\ groupValue = [def |-> FALSE, arr |-> <<>>]
    /\ cbLast = [op |-> "idle"]

RadioIdle ==
    /\ radios = <<>>
    /\ radioMounted = {}
    /\ radioDisabled = {}
    /\ radioValue = Undefined
    /\ radioLast = [op |-> "idle"]
    /\ radioDir = Undefined
    /\ radioError = ""

\* an absent key of a partial object
Absent == "absent"
JsBooleans == {"true", "false"}
\* getSiteLocale()
SiteLocale == "site"
Locales == {SiteLocale, "fr"}

\* the config module as loaded
CfgIdle ==
    /\ currentConfig = [locale |-> SiteLocale, detectDirection |-> "true", validation |-> 1]
    /\ cfgHeap = <<[disableHtmlValidation |-> "false"]>>
    /\ heldConfig = [held |-> FALSE, obj |-> currentConfig]
    /\ heldView = [locale |-> SiteLocale, detectDirection |-> "true",
                   disableHtmlValidation |-> "false"]
    /\ formHtmlOpt = Undefined
    /\ cfgLast = [op |-> "idle"]

\* no form element yet
SubmitIdle ==
    /\ formMode = "aggregate"
    /\ formPc = "idle"
    /\ mountHooks = <<>>
    /\ mountRequests = 0
    /\ formOut = [set |-> FALSE, entries |-> {}]
    /\ formData = {}

FormIdle ==
    /\ CfgIdle
    /\ SubmitIdle
    /\ initialValues = <<>>
    /\ heap = <<>>
    /\ valuesRef = 0
    /\ originalsRef = 0
    /\ touched = <<>>
    /\ errors = <<>>
    /\ formLast = [op |-> "idle"]

\* after useCheckbox (and useCheckboxGroup) ran
InitCheckbox ==
    /\ hasGroup \in BOOLEAN
    /\ cbProps \in [Boxes -> [trueValue : TrueValueProps, falseValue : FalseValueProps,
                             disabled : {FALSE}, indeterminate : {FALSE}]]
    /\ \A b \in Boxes : b \notin ActiveBoxes =>
          cbProps[b] = [trueValue |-> Undefined, falseValue |-> Undefined,
                        disabled |-> FALSE, indeterminate |-> FALSE]
    /\ hasGroup => \A b \in Boxes : cbProps[b].falseValue = Undefined
    /\ cbField = [b \in Boxes |-> IF hasGroup THEN Undefined ELSE InitialFieldValue(cbProps[b])]
    /\ groupValue \in {[def |-> FALSE, arr |-> <<>>]} \cup
                      (IF hasGroup THEN {[def |-> TRUE, arr |-> s] : s \in AssignSeqs} ELSE {})
    /\ cbLast = [op |-> "init", box |-> 1, arg |-> Omitted, pre |-> FALSE, val |-> Undefined]
    /\ GroupIdle
    /\ RadioIdle
    /\ FormIdle
    /\ NumIdle

NextCheckbox ==
    \/ \E b \in Boxes : Click(b)
    \/ \E b \in Boxes, code \in {"Space", "Enter"} : Keydown(b, code)
    \/ \E b \in Boxes, force \in ForceArgs : CallToggleValue(b, force)
    \/ \E b \in Boxes, force \in ForceArgs : CallSetChecked(b, force)
    \/ \E b \in Boxes, v \in BOOLEAN : AssignIsChecked(b, v)
    \/ \E b \in Boxes, v \in BOOLEAN : SetIndeterminate(b, v)
    \/ \E b \in Boxes, v \in BOOLEAN : SetDisabled(b, v)
    \/ \E v \in FieldValues : ModelPropUpdated(v)
    \/ \E arr \in AssignSeqs : GroupAssign(arr)
    \/ \E value \in GroupValues, force \in ForceArgs : CallGroupToggleValue(value, force)

SpecCheckbox == InitCheckbox /\ [][NextCheckbox]_vars

(***************************************************************************)
(* useCheckbox in a group that may be disabled                             *)
(***************************************************************************)
\* createBindings: [isInput ? 'disabled' : 'aria-disabled']: isDisabled() || undefined
DisabledBinding(b) == IF isDisabled(b) THEN "true" ELSE Undefined

\* the group's disabled prop changes
GroupSetDisabled(v) ==
    /\ hasGroup
    /\ groupDisabled # v
    /\ groupDisabled' = v
    /\ cbLast' = [op |-> "groupProps", box |-> 1, arg |-> Omitted, pre |-> FALSE, val |-> Undefined]
    /\ UNCHANGED <<hasGroup, cbProps, cbField, groupValue, checkboxes, cbMounted,
                   cbDisabledUnset, radioVars, formVars, numVars, cfgVars, submitVars>>

InitDisabled ==
    /\ hasGroup \in BOOLEAN
    /\ cbProps \in [Boxes -> [trueValue : TrueValueProps, falseValue : {Undefined},
                             disabled : {FALSE}, indeterminate : {FALSE}]]
    /\ \A b \in Boxes : b \notin ActiveBoxes => cbProps[b].trueValue = Undefined
    /\ cbField = [b \in Boxes |-> IF hasGroup THEN Undefined ELSE InitialFieldValue(cbProps[b])]
    /\ groupValue = [def |-> FALSE, arr |-> <<>>]
    /\ cbLast = [op |-> "init", box |-> 1, arg |-> Omitted, pre |-> FALSE, val |-> Undefined]
    /\ checkboxes = <<>>
    /\ cbMounted = {}
    /\ groupDisabled = FALSE
    /\ cbDisabledUnset \in SUBSET ActiveBoxes
    /\ RadioIdle
    /\ FormIdle
    /\ NumIdle

NextDisabled ==
    \/ \E b \in Boxes : Click(b)
    \/ \E b \in Boxes, code \in {"Space", "Enter"} : Keydown(b, code)
    \/ \E b \in Boxes, v \in BOOLEAN : SetDisabled(b, v)
    \/ \E v \in BOOLEAN : GroupSetDisabled(v)
    \/ \E arr \in AssignSeqs : GroupAssign(arr)

SpecDisabled == InitDisabled /\ [][NextDisabled]_vars

(***************************************************************************)
(* useCheckboxGroup: registration and groupState                           *)
(***************************************************************************)
\* removeFirst(list, reg => reg.id === id)
removeFirst(list, id) ==
    IF \E i \in DOMAIN list : list[i] = id
    THEN LET idx == CHOOSE i \in DOMAIN list :
                        list[i] = id /\ \A j \in DOMAIN list : list[j] = id => i <= j
         IN  SubSeq(list, 1, idx - 1) \o SubSeq(list, idx + 1, Len(list))
    ELSE list

DefaultProps ==
    [trueValue |-> Undefined, falseValue |-> Undefined,
     disabled |-> FALSE, indeterminate |-> FALSE]

\* useCheckbox of box b runs inside the group: useCheckboxRegistration
UseCheckboxRegistration(b, trueValue) ==
    /\ hasGroup
    /\ b \notin cbMounted
    /\ cbProps' = [cbProps EXCEPT ![b].trueValue = trueValue]
    /\ checkboxes' = Append(checkboxes, b)
    /\ cbMounted' = cbMounted \cup {b}
    /\ cbLast' = [op |-> "register", box |-> b, arg |-> Omitted, pre |-> FALSE, val |-> Undefined]
    /\ UNCHANGED <<hasGroup, cbField, groupValue, groupDisabled, cbDisabledUnset,
                   radioVars, formVars, numVars, cfgVars, submitVars>>

\* onBeforeUnmount of a registered checkbox
CheckboxUnmount(b) ==
    /\ hasGroup
    /\ b \in cbMounted
    /\ checkboxes' = removeFirst(checkboxes, b)
    /\ cbMounted' = cbMounted \ {b}
    /\ cbProps' = [cbProps EXCEPT ![b] = DefaultProps]
    /\ cbLast' = [op |-> "unmount", box |-> b, arg |-> Omitted, pre |-> FALSE, val |-> Undefined]
    /\ UNCHANGED <<hasGroup, cbField, groupValue, groupDisabled, cbDisabledUnset,
                   radioVars, formVars, numVars, cfgVars, submitVars>>

\* a click on a mounted checkbox of the group
MountedClick(b) ==
    /\ b \in cbMounted
    /\ Click(b)

\* groupState
groupState ==
    IF ~groupValue.def \/ Len(groupValue.arr) = 0
    THEN "unchecked"
    ELSE IF Len(groupValue.arr) > 0 /\ Len(groupValue.arr) < Len(checkboxes)
         THEN "mixed"
         ELSE "checked"

\* after useCheckboxGroup ran, before any checkbox registered
InitGroup ==
    /\ hasGroup = TRUE
    /\ cbProps = [b \in Boxes |-> DefaultProps]
    /\ cbField = [b \in Boxes |-> Undefined]
    /\ groupValue \in {[def |-> FALSE, arr |-> <<>>]} \cup
                      {[def |-> TRUE, arr |-> s] : s \in AssignSeqs}
    /\ cbLast = [op |-> "init", box |-> 1, arg |-> Omitted, pre |-> FALSE, val |-> Undefined]
    /\ GroupIdle
    /\ RadioIdle
    /\ FormIdle
    /\ NumIdle

NextGroup ==
    \/ \E b \in Boxes, trueValue \in TrueValueProps : UseCheckboxRegistration(b, trueValue)
    \/ \E b \in Boxes : CheckboxUnmount(b)
    \/ \E b \in Boxes : MountedClick(b)
    \/ \E arr \in AssignSeqs : GroupAssign(arr)

SpecGroup == InitGroup /\ [][NextGroup]_vars

(***************************************************************************)
(* useRadioGroup                                                           *)
(***************************************************************************)
Radios == 1 .. NumRadios
\* the value prop of radio r
RadioValueOf(r) == ToString(r)
\* what setValue / a model update can assign
RadioValues == {Undefined, ""} \cup {RadioValueOf(r) : r \in Radios}

\* isEmpty(value)
isEmpty(v) == v = Undefined \/ v = ""

\* radio.isChecked()
RadioIsChecked(r) == radioValue = RadioValueOf(r)
\* radio.isDisabled()
RadioIsDisabled(r) == r \in radioDisabled

\* radios.findIndex(radio => radio.isChecked()), 0-based, -1 when none
FindCheckedIdx ==
    IF \E i \in DOMAIN radios : RadioIsChecked(radios[i])
    THEN (CHOOSE i \in DOMAIN radios :
            /\ RadioIsChecked(radios[i])
            /\ \A j \in DOMAIN radios : RadioIsChecked(radios[j]) => i <= j) - 1
    ELSE -1

\* radios.filter(radio => !radio.isDisabled())
AvailableCandidates == SelectSeq(radios, LAMBDA r : ~RadioIsDisabled(r))

\* getNextCycleArrIdx(idx, arr): idx wrapped into arr, 0-based
getNextCycleArrIdx(idx, arr) ==
    IF idx < 0 THEN Len(arr) - 1
    ELSE IF idx >= Len(arr) THEN 0
    ELSE idx

\* arr[idx]?.setChecked(): the radios setChecked is called on, in order
CallSetCheckedAt(arr, idx) ==
    IF idx >= 0 /\ idx < Len(arr) THEN <<arr[idx + 1]>> ELSE <<>>

\* with no radio checked, goes to the first enabled radio
ArrowNextTargetsFirstEnabled ==
    LET currentIdx == FindCheckedIdx
    IN  IF currentIdx < 0
        THEN CallSetCheckedAt(AvailableCandidates, 0)
        ELSE CallSetCheckedAt(AvailableCandidates,
                              getNextCycleArrIdx(currentIdx + 1, AvailableCandidates))

\* handleArrowNext(): the radios setChecked is called on
ArrowNextTargets ==
    LET currentIdx == FindCheckedIdx
    IN  IF currentIdx < 0
        THEN CallSetCheckedAt(radios, 0)
        ELSE CallSetCheckedAt(AvailableCandidates,
                              getNextCycleArrIdx(currentIdx + 1, AvailableCandidates))

\* handleArrowPrevious(): the radios setChecked is called on
ArrowPreviousTargets ==
    LET currentIdx == FindCheckedIdx
    IN  IF currentIdx = -1
        THEN CallSetCheckedAt(radios, 0)
        ELSE CallSetCheckedAt(AvailableCandidates,
                              getNextCycleArrIdx(currentIdx - 1, AvailableCandidates))

\* radio.setChecked() of each target: the group's setValue(radio value)
RadioSetChecked(targets) ==
    radioValue' = IF targets = <<>> THEN radioValue
                  ELSE RadioValueOf(targets[Len(targets)])

RadioOp(op, calls) ==
    /\ radioLast' = [op |-> op, pre |-> radioValue, calls |-> calls]
    /\ UNCHANGED <<radioDir, radioError, cbVars, formVars, groupVars, numVars, cfgVars, submitVars>>

HandleArrowNext ==
    /\ RadioSetChecked(ArrowNextTargets)
    /\ RadioOp("next", ArrowNextTargets)
    /\ UNCHANGED <<radios, radioMounted, radioDisabled>>

HandleArrowPrevious ==
    /\ RadioSetChecked(ArrowPreviousTargets)
    /\ RadioOp("previous", ArrowPreviousTargets)
    /\ UNCHANGED <<radios, radioMounted, radioDisabled>>

\* setValue(value), or the model prop updated
RadioSetValue(v) ==
    /\ radioValue' = v
    /\ RadioOp("setValue", <<>>)
    /\ UNCHANGED <<radios, radioMounted, radioDisabled>>

\* useRadioRegistration(radio): registerRadio
UseRadioRegistration(r) ==
    /\ r \notin radioMounted
    /\ radios' = Append(radios, r)
    /\ radioMounted' = radioMounted \cup {r}
    /\ RadioOp("register", <<>>)
    /\ UNCHANGED <<radioDisabled, radioValue>>

\* splices at index 0 whatever indexOf returned
unregisterRadioHead(list, r) ==
    IF list = <<>> THEN list ELSE Tail(list)

\* radios.splice(radios.indexOf(radio), 1)
unregisterRadio(list, r) ==
    IF \E i \in DOMAIN list : list[i] = r
    THEN LET idx == CHOOSE i \in DOMAIN list :
                        list[i] = r /\ \A j \in DOMAIN list : list[j] = r => i <= j
         IN  SubSeq(list, 1, idx - 1) \o SubSeq(list, idx + 1, Len(list))
    ELSE list

\* onBeforeUnmount of a radio
RadioUnmount(r) ==
    /\ r \in radioMounted
    /\ radios' = unregisterRadio(radios, r)
    /\ radioMounted' = radioMounted \ {r}
    /\ RadioOp("unmount", <<>>)
    /\ UNCHANGED <<radioDisabled, radioValue>>

\* a radio's disabled prop changes
RadioSetDisabled(r, v) ==
    /\ (r \in radioDisabled) # v
    /\ radioDisabled' = IF v THEN radioDisabled \cup {r} ELSE radioDisabled \ {r}
    /\ RadioOp("props", <<>>)
    /\ UNCHANGED <<radios, radioMounted, radioValue>>

\* true for every registered radio while the value is empty
canReceiveFocusAnyRadio(r) ==
    (\E i \in DOMAIN radios : radios[i] = r) /\ isEmpty(radioValue)

\* canReceiveFocus() of radio r
canReceiveFocus(r) ==
    radios # <<>> /\ radios[1] = r /\ isEmpty(radioValue)

\* after useRadioGroup ran, before any radio registered
InitRadio ==
    /\ radios = <<>>
    /\ radioMounted = {}
    /\ radioDisabled = {}
    /\ radioValue \in RadioValues
    /\ radioLast = [op |-> "init", pre |-> Undefined, calls |-> <<>>]
    /\ radioDir = Undefined
    /\ radioError = ""
    /\ CbIdle
    /\ FormIdle
    /\ NumIdle

NextRadio ==
    \/ HandleArrowNext
    \/ HandleArrowPrevious
    \/ \E v \in RadioValues : RadioSetValue(v)
    \/ \E r \in Radios : UseRadioRegistration(r)
    \/ \E r \in Radios : RadioUnmount(r)
    \/ \E r \in Radios, v \in BOOLEAN : RadioSetDisabled(r, v)

SpecRadio == InitRadio /\ [][NextRadio]_vars

(***************************************************************************)
(* useRadioGroup: the keydown handler                                      *)
(***************************************************************************)
Directions == {Undefined, "ltr", "rtl"}
Keys == {"ArrowDown", "ArrowUp", "ArrowLeft", "ArrowRight", "Enter", "Tab"}

\* 'rtl' is not told apart
getOrientationArrowsLtrOnly(dir) ==
    [next |-> {"ArrowDown", "ArrowRight"}, prev |-> {"ArrowUp", "ArrowLeft"}]

\* getOrientationArrows(dir)
getOrientationArrows(dir) ==
    IF dir = "rtl"
    THEN [next |-> {"ArrowDown", "ArrowLeft"}, prev |-> {"ArrowUp", "ArrowRight"}]
    ELSE [next |-> {"ArrowDown", "ArrowRight"}, prev |-> {"ArrowUp", "ArrowLeft"}]

\* radioGroupProps.onKeydown(e)
RadioKeydown(key) ==
    LET arrows == getOrientationArrows(radioDir)
        handler == IF key \in arrows.next THEN "next"
                   ELSE IF key \in arrows.prev THEN "previous"
                   ELSE "none"
        targets == IF handler = "next" THEN ArrowNextTargets
                   ELSE IF handler = "previous" THEN ArrowPreviousTargets
                   ELSE <<>>
    IN  /\ RadioSetChecked(targets)
        /\ radioLast' = [op |-> "keydown", pre |-> radioValue, calls |-> targets,
                         key |-> key, handler |-> handler,
                         prevented |-> handler # "none"]
        /\ UNCHANGED <<radios, radioMounted, radioDisabled, radioDir, radioError, cbVars, formVars, groupVars, numVars, cfgVars, submitVars>>

\* the dir prop changes
RadioSetDir(dir) ==
    /\ radioDir # dir
    /\ radioDir' = dir
    /\ radioLast' = [op |-> "props", pre |-> radioValue, calls |-> <<>>]
    /\ UNCHANGED <<radios, radioMounted, radioDisabled, radioValue, radioError, cbVars, formVars, groupVars, numVars, cfgVars, submitVars>>

InitRadioKeys ==
    /\ radios = <<>>
    /\ radioMounted = {}
    /\ radioDisabled = {}
    /\ radioValue \in RadioValues
    /\ radioLast = [op |-> "init", pre |-> Undefined, calls |-> <<>>]
    /\ radioDir \in Directions
    /\ radioError = ""
    /\ CbIdle
    /\ FormIdle
    /\ NumIdle

NextRadioKeys ==
    \/ \E key \in Keys : RadioKeydown(key)
    \/ \E dir \in Directions : RadioSetDir(dir)
    \/ \E v \in RadioValues : RadioSetValue(v)
    \/ \E r \in Radios : UseRadioRegistration(r)
    \/ \E r \in Radios : RadioUnmount(r)

SpecRadioKeys == InitRadioKeys /\ [][NextRadioKeys]_vars

(***************************************************************************)
(* The two registries: radios of a radio group, checkboxes of a checkbox   *)
(* group                                                                   *)
(***************************************************************************)
InitRegistry ==
    /\ radios = <<>>
    /\ radioMounted = {}
    /\ radioDisabled = {}
    /\ radioValue = Undefined
    /\ radioLast = [op |-> "init", pre |-> Undefined, calls |-> <<>>]
    /\ radioDir = Undefined
    /\ radioError = ""
    /\ hasGroup = TRUE
    /\ cbProps = [b \in Boxes |-> DefaultProps]
    /\ cbField = [b \in Boxes |-> Undefined]
    /\ groupValue = [def |-> FALSE, arr |-> <<>>]
    /\ cbLast = [op |-> "init", box |-> 1, arg |-> Omitted, pre |-> FALSE, val |-> Undefined]
    /\ GroupIdle
    /\ FormIdle
    /\ NumIdle

NextRegistry ==
    \/ \E r \in Radios : UseRadioRegistration(r)
    \/ \E r \in Radios : RadioUnmount(r)
    \/ \E b \in Boxes, trueValue \in TrueValueProps : UseCheckboxRegistration(b, trueValue)
    \/ \E b \in Boxes : CheckboxUnmount(b)

SpecRegistry == InitRegistry /\ [][NextRegistry]_vars

(***************************************************************************)
(* useNumberField                                                          *)
(***************************************************************************)
Nums == (0 - MaxNum) .. MaxNum
Num(n) == [kind |-> "num", n |-> n]
NaN == [kind |-> "nan", n |-> 0]
NumUndefined == [kind |-> "undef", n |-> 0]
NumberValues == {Num(n) : n \in Nums} \cup {NaN, NumUndefined}
\* an optional Numberish prop
Unset == [set |-> FALSE, n |-> 0]
NumberishProps == {Unset} \cup {[set |-> TRUE, n |-> n] : n \in Nums}

\* parser.format(value): the text, character by character
NumFormat(n) == IF n < 0 THEN <<"-", ToString(0 - n)>> ELSE <<ToString(n)>>

\* what the input element's text can be at a change event
Texts == {NumFormat(n) : n \in Nums} \cup {<<>>, <<"a">>}

\* parser.parse(text): NaN when the text is no number
NumParse(text) ==
    IF \E n \in Nums : NumFormat(n) = text
    THEN Num(CHOOSE n \in Nums : NumFormat(n) = text)
    ELSE NaN

\* useSpinButton applyClamp(value): Math.max(min, Math.min(value, max)),
\* an unset bound not limiting
applyClamp(v) ==
    IF v.kind # "num" THEN NaN
    ELSE LET upper == IF numMax.set /\ v.n > numMax.n THEN numMax.n ELSE v.n
             lower == IF numMin.set /\ upper < numMin.n THEN numMin.n ELSE upper
         IN  Num(lower)

\* the parsed number is assigned as it is
ChangedValueUnclamped(text) == NumParse(text)

\* handlers.onChange: applyClamp(parser.parse(el.value))
ChangedValue(text) == applyClamp(NumParse(text))

\* NaN is formatted like a number
formattedTextOfNaN ==
    IF numValue.kind = "undef" THEN <<>>
    ELSE IF numValue.kind = "nan" THEN <<"N", "a", "N">>
    ELSE NumFormat(numValue.n)

\* formattedText: '' for NaN and for an empty value, parser.format otherwise
formattedText ==
    IF numValue.kind = "nan" \/ numValue.kind = "undef"
    THEN <<>>
    ELSE NumFormat(numValue.n)

NumOp(op, parsed) ==
    /\ numLast' = [op |-> op, parsed |-> parsed, text |-> numText]
    /\ UNCHANGED <<numMin, numMax, numError,
                   cbVars, radioVars, formVars, groupVars, cfgVars, submitVars>>

\* inputProps value: formattedText.value, patched into the element when a
\* changed fieldValue re-renders it
RenderValue ==
    /\ numText' = IF numValue' # numValue THEN formattedText' ELSE numText
    /\ UNCHANGED numTick

\* handlers.onChange(event): the element holds `text`; the callback given to
\* nextTick is queued
NumOnChange(text) ==
    /\ numValue' = ChangedValue(text)
    /\ numText' = text
    /\ numTick' = TRUE
    /\ NumOp("change", NumParse(text))

\* the next tick after onChange: the re-render, then the queued callback
NumNextTick ==
    /\ numTick
    /\ numText' = IF numText # formattedText THEN formattedText ELSE numText
    /\ numTick' = FALSE
    /\ NumOp("tick", NaN)
    /\ UNCHANGED numValue

\* the number the spin button steps from
CurrentNumber == IF numValue.kind = "num" THEN numValue.n ELSE 0

\* useSpinButton increment(): onChange(applyClamp(current + step)), step 1
NumIncrement ==
    /\ applyClamp(Num(CurrentNumber + 1)).n \in Nums
    /\ numValue' = applyClamp(Num(CurrentNumber + 1))
    /\ RenderValue
    /\ NumOp("increment", NaN)

\* useSpinButton decrement(): onChange(applyClamp(current - step)), step 1
NumDecrement ==
    /\ applyClamp(Num(CurrentNumber - 1)).n \in Nums
    /\ numValue' = applyClamp(Num(CurrentNumber - 1))
    /\ RenderValue
    /\ NumOp("decrement", NaN)

\* useSyncModel: onModelPropUpdated(value)
NumModelPropUpdated(v) ==
    /\ numValue' = v
    /\ RenderValue
    /\ NumOp("model", NaN)

\* after useNumberField ran
InitNumber ==
    /\ numValue \in {NumUndefined} \cup {Num(n) : n \in Nums}
    /\ numMin \in NumberishProps
    /\ numMax \in NumberishProps
    /\ numError = ""
    /\ numLast = [op |-> "init", parsed |-> NaN, text |-> <<>>]
    /\ numText = formattedText
    /\ numTick = FALSE
    /\ CbIdle
    /\ RadioIdle
    /\ FormIdle

NextNumber ==
    \/ \E text \in Texts : NumOnChange(text)
    \/ NumNextTick
    \/ NumIncrement
    \/ NumDecrement
    \/ \E v \in NumberValues : NumModelPropUpdated(v)

SpecNumber == InitNumber /\ [][NextNumber]_vars

(***************************************************************************)
(* useNumberField: the beforeinput handler                                 *)
(***************************************************************************)
\* the characters a user can type
Chars == {"1", "-", "a"}
Digits == {ToString(d) : d \in 0 .. 9}
\* texts of up to n characters
TextsUpTo(n) == UNION {[1 .. k -> Chars] : k \in 0 .. n}
\* event.data: null, or the text to insert
NoData == [null |-> TRUE, chars |-> <<>>]
EventData ==
    {NoData} \cup {[null |-> FALSE, chars |-> d] : d \in TextsUpTo(1) \cup {<<"-", "1">>}}

\* parser.isValidNumberPart(text): digits, with a sign in front at most
isValidNumberPart(text) ==
    \A i \in DOMAIN text : text[i] \in Digits \/ (text[i] = "-" /\ i = 1)

\* the data is put at the end of the text, wherever the selection is
PredictedTextAppended(text, data, selectionStart, selectionEnd) == text \o data

\* el.value.slice(0, selectionStart) + event.data + el.value.slice(selectionEnd)
PredictedText(text, data, selectionStart, selectionEnd) ==
    SubSeq(text, 1, selectionStart) \o data \o SubSeq(text, selectionEnd + 1, Len(text))

\* onBeforeinput calls event.preventDefault()
BeforeinputPrevents(text, data, selectionStart, selectionEnd) ==
    IF data.null
    THEN FALSE
    ELSE ~isValidNumberPart(PredictedText(text, data.chars, selectionStart, selectionEnd))

\* what the browser does with an event that was not prevented: a deletion
\* removes the selection (or the character before the caret), an insertion
\* replaces the selection
BrowserApplies(text, data, selectionStart, selectionEnd) ==
    IF ~data.null
    THEN SubSeq(text, 1, selectionStart) \o data.chars
             \o SubSeq(text, selectionEnd + 1, Len(text))
    ELSE IF selectionStart < selectionEnd
         THEN SubSeq(text, 1, selectionStart) \o SubSeq(text, selectionEnd + 1, Len(text))
         ELSE SubSeq(text, 1, selectionStart - 1) \o SubSeq(text, selectionStart + 1, Len(text))

\* handlers.onBeforeinput(event), then the browser's default action
NumOnBeforeinput(data, selectionStart, selectionEnd) ==
    LET prevented == BeforeinputPrevents(numText, data, selectionStart, selectionEnd)
        applied == BrowserApplies(numText, data, selectionStart, selectionEnd)
    IN  /\ selectionStart <= selectionEnd
        /\ selectionEnd <= Len(numText)
        /\ prevented \/ Len(applied) <= MaxTextLen
        /\ numText' = IF prevented THEN numText ELSE applied
        /\ numLast' = [op |-> "beforeinput", parsed |-> NaN, text |-> numText,
                       data |-> data, selectionStart |-> selectionStart,
                       selectionEnd |-> selectionEnd, prevented |-> prevented]
        /\ UNCHANGED <<numValue, numMin, numMax, numError, numTick,
                       cbVars, radioVars, formVars, groupVars, cfgVars, submitVars>>

InitBeforeinput ==
    /\ numValue \in {NumUndefined, Num(1)}
    /\ numMin = Unset
    /\ numMax = Unset
    /\ numError = ""
    /\ numLast = [op |-> "init", parsed |-> NaN, text |-> <<>>]
    /\ numText = formattedText
    /\ numTick = FALSE
    /\ CbIdle
    /\ RadioIdle
    /\ FormIdle

NextBeforeinput ==
    \/ \E data \in EventData, selectionStart, selectionEnd \in 0 .. MaxTextLen :
          NumOnBeforeinput(data, selectionStart, selectionEnd)
    \/ NumOnChange(numText)
    \/ NumNextTick

SpecBeforeinput == InitBeforeinput /\ [][NextBeforeinput]_vars

(***************************************************************************)
(* errorMessage and aria-invalid of the radio group and the number field   *)
(***************************************************************************)
\* what the browser or a validator reports
ValidityMessages == {"", "Required", "Too low"}

\* any defined message counts as an error
AriaInvalidDefined(errorMessage) ==
    IF errorMessage # Undefined THEN "true" ELSE Undefined

\* 'aria-invalid': errorMessage.value ? true : undefined
AriaInvalid(errorMessage) ==
    IF errorMessage # Undefined /\ errorMessage # "" THEN "true" ELSE Undefined

\* useInputValidity setValidity(message) of the radio group
RadioSetValidity(message) ==
    /\ radioError' = message
    /\ radioLast' = [op |-> "setValidity", pre |-> radioValue, calls |-> <<>>,
                     message |-> message]
    /\ UNCHANGED <<radios, radioMounted, radioDisabled, radioValue, radioDir,
                   cbVars, formVars, groupVars, numVars, cfgVars, submitVars>>

\* useInputValidity setValidity(message) of the number field
NumSetValidity(message) ==
    /\ numError' = message
    /\ numLast' = [op |-> "setValidity", parsed |-> NaN, text |-> numText,
                   message |-> message]
    /\ UNCHANGED <<numValue, numMin, numMax, numText, numTick, cbVars, radioVars, formVars, groupVars, cfgVars, submitVars>>

InitValidity ==
    /\ radios = <<>>
    /\ radioMounted = {}
    /\ radioDisabled = {}
    /\ radioValue = Undefined
    /\ radioLast = [op |-> "init", pre |-> Undefined, calls |-> <<>>]
    /\ radioDir = Undefined
    /\ radioError \in {Undefined, ""}
    /\ numValue = NumUndefined
    /\ numMin = Unset
    /\ numMax = Unset
    /\ numError \in {Undefined, ""}
    /\ numLast = [op |-> "init", parsed |-> NaN, text |-> <<>>]
    /\ numText = <<>>
    /\ numTick = FALSE
    /\ CbIdle
    /\ FormIdle

NextValidity ==
    \/ \E message \in ValidityMessages : RadioSetValidity(message)
    \/ \E message \in ValidityMessages : NumSetValidity(message)
    \/ \E v \in RadioValues : RadioSetValue(v)
    \/ \E text \in Texts : NumOnChange(text)

SpecValidity == InitValidity /\ [][NextValidity]_vars

(***************************************************************************)
(* config: currentConfig, configure, getConfig; and the form option that   *)
(* falls back on it                                                        *)
(***************************************************************************)
\* PartialDeep<Config>: every key may be absent, the nested object too
ConfigPartials ==
    {p \in [locale : {Absent} \cup Locales,
            detectDirection : {Absent} \cup JsBooleans,
            validation : [present : BOOLEAN,
                          disableHtmlValidation : {Absent} \cup JsBooleans]] :
        ~p.validation.present => p.validation.disableHtmlValidation = Absent}

NoPartial ==
    [locale |-> Absent, detectDirection |-> Absent,
     validation |-> [present |-> FALSE, disableHtmlValidation |-> Absent]]

\* obj[key] of a JavaScript object: undefined for a key it does not have
GetProp(obj, key) == IF key \in DOMAIN obj THEN obj[key] ELSE Undefined

\* { ...obj }: a new top-level object, nested objects shared
ShallowCopy(obj) == [key \in DOMAIN obj |-> obj[key]]

\* merge(target, source) on a nested object: the keys of source overwrite
\* those of target, in place
mergeNested(target, source) ==
    [disableHtmlValidation |->
        IF source.disableHtmlValidation = Absent
        THEN target.disableHtmlValidation
        ELSE source.disableHtmlValidation]

\* merge(target, source): writes source's keys into target and recurses
\* into a key that is an object on both sides; returns target
merge(target, source, objects) ==
    [obj |-> [locale |-> IF source.locale = Absent
                         THEN target.locale ELSE source.locale,
              detectDirection |-> IF source.detectDirection = Absent
                                  THEN target.detectDirection
                                  ELSE source.detectDirection,
              validation |-> target.validation],
     heap |-> IF source.validation.present
              THEN [objects EXCEPT ![target.validation] =
                        mergeNested(@, source.validation)]
              ELSE objects]

\* getConfig()
getConfig == currentConfig

\* a config object read through to its leaves
DeepView(obj) ==
    [locale |-> obj.locale, detectDirection |-> obj.detectDirection,
     disableHtmlValidation |-> cfgHeap[obj.validation].disableHtmlValidation]

\* configure(config)
Configure(partial) ==
    /\ LET merged == merge(ShallowCopy(currentConfig), partial, cfgHeap)
       IN  /\ currentConfig' = merged.obj
           /\ cfgHeap' = merged.heap
    /\ cfgLast' = [op |-> "configure", partial |-> partial]
    /\ UNCHANGED <<heldConfig, heldView, formHtmlOpt,
                   cbVars, radioVars, formVars, groupVars, numVars, submitVars>>

\* a caller keeps what getConfig() returned
KeepConfig ==
    /\ heldConfig' = [held |-> TRUE, obj |-> getConfig]
    /\ heldView' = DeepView(getConfig)
    /\ cfgLast' = [op |-> "getConfig", partial |-> NoPartial]
    /\ UNCHANGED <<currentConfig, cfgHeap, formHtmlOpt,
                   cbVars, radioVars, formVars, groupVars, numVars, submitVars>>

\* useForm(opts): a form with or without the disableHtmlValidation option
UseFormHtmlOption(opt) ==
    /\ formHtmlOpt # opt
    /\ formHtmlOpt' = opt
    /\ cfgLast' = [op |-> "useForm", partial |-> NoPartial]
    /\ UNCHANGED <<currentConfig, cfgHeap, heldConfig, heldView,
                   cbVars, radioVars, formVars, groupVars, numVars, submitVars>>

\* isHtmlValidationDisabled()
isHtmlValidationDisabled ==
    IF formHtmlOpt # Undefined
    THEN formHtmlOpt
    ELSE GetProp(getConfig, "disableHtmlValidation")

InitConfig ==
    /\ currentConfig = [locale |-> SiteLocale, detectDirection |-> "true", validation |-> 1]
    /\ cfgHeap = <<[disableHtmlValidation |-> "false"]>>
    /\ heldConfig = [held |-> FALSE, obj |-> currentConfig]
    /\ heldView = DeepView(currentConfig)
    /\ formHtmlOpt \in {Undefined} \cup JsBooleans
    /\ cfgLast = [op |-> "init", partial |-> NoPartial]
    /\ SubmitIdle
    /\ initialValues = <<>>
    /\ heap = <<>>
    /\ valuesRef = 0
    /\ originalsRef = 0
    /\ touched = <<>>
    /\ errors = <<>>
    /\ formLast = [op |-> "idle"]
    /\ CbIdle
    /\ RadioIdle
    /\ NumIdle

NextConfig ==
    \/ \E partial \in ConfigPartials : Configure(partial)
    \/ KeepConfig
    \/ \E opt \in {Undefined} \cup JsBooleans : UseFormHtmlOption(opt)

SpecConfig == InitConfig /\ [][NextConfig]_vars

(***************************************************************************)
(* useForm                                                                 *)
(***************************************************************************)
Paths == {"a", "b"}
FormValues == {"x", "y"}
Messages == {"required", "invalid"}
ErrorLists == UNION {[1 .. n -> Messages] : n \in 0 .. MaxErrors}

\* cloneDeep(h[ref]): a new object with the same content
cloneDeep(h, ref) == [ref |-> Len(h) + 1, heap |-> Append(h, h[ref])]

\* values is the originals object itself
UseFormValuesAliased(h, ref) == [ref |-> ref, heap |-> h]

\* const values = reactive(cloneDeep(valuesSnapshot.originals.value))
UseFormValues(h, ref) == cloneDeep(h, ref)

\* isDirty
isDirty == ~isEqual(heap[valuesRef], heap[originalsRef])

\* ctx.getFieldErrors(path)
getFieldErrors(path) == errors[path]
\* ctx.isFieldTouched(path)
isFieldTouched(path) == touched[path]

\* getError(path): ctx.getFieldErrors(path)[0]
getError(path) ==
    IF Len(getFieldErrors(path)) >= 1 THEN getFieldErrors(path)[1] ELSE Undefined

\* shows the error whether or not the field is touched
displayErrorUntouched(path) == getError(path)

\* displayError(path)
displayError(path) == IF isFieldTouched(path) THEN getError(path) ELSE Undefined

\* ctx.hasErrors(): some field holds an error message
hasErrors == \E path \in Paths : errors[path] # <<>>

\* the negation is lost
isValidNotNegated == hasErrors

\* isValid
isValid == ~hasErrors

\* findLeaf(tree, predicate): some leaf of the tree satisfies the predicate
findLeaf(tree, leaf) == \E path \in DOMAIN tree : tree[path] = leaf

\* true only when every leaf is true
isTouchedEveryLeaf == \A path \in DOMAIN touched : touched[path] = TRUE

\* isTouched
isTouched == findLeaf(touched, TRUE)

FormOp(op) ==
    /\ formLast' = [op |-> op, preDirty |-> isDirty, preValid |-> isValid,
                    preTouched |-> isTouched]
    /\ UNCHANGED <<cbVars, radioVars, groupVars, numVars, cfgVars, submitVars>>

\* ctx.setFieldValue(path, value)
SetFieldValue(path, v) ==
    /\ heap' = [heap EXCEPT ![valuesRef][path] = v]
    /\ FormOp("setFieldValue")
    /\ UNCHANGED <<initialValues, valuesRef, originalsRef, touched, errors>>

\* ctx.setFieldTouched(path, value)
SetFieldTouched(path, v) ==
    /\ touched' = [touched EXCEPT ![path] = v]
    /\ FormOp("setFieldTouched")
    /\ UNCHANGED <<initialValues, heap, valuesRef, originalsRef, errors>>

\* ctx.setFieldErrors(path, messages)
SetFieldErrors(path, msgs) ==
    /\ errors' = [errors EXCEPT ![path] = msgs]
    /\ FormOp("setFieldErrors")
    /\ UNCHANGED <<initialValues, heap, valuesRef, originalsRef, touched>>

\* after useForm(opts) ran with synchronous initial values
InitForm ==
    /\ initialValues \in [Paths -> FormValues]
    /\ originalsRef = 1
    /\ LET c == UseFormValues(<<initialValues>>, 1)
       IN  heap = c.heap /\ valuesRef = c.ref
    /\ touched \in [Paths -> BOOLEAN]
    /\ errors = [p \in Paths |-> <<>>]
    /\ formLast = [op |-> "init", preDirty |-> FALSE, preValid |-> TRUE,
                   preTouched |-> FALSE]
    /\ CbIdle
    /\ RadioIdle
    /\ NumIdle
    /\ CfgIdle
    /\ SubmitIdle

NextForm ==
    \/ \E path \in Paths, v \in FormValues : SetFieldValue(path, v)
    \/ \E path \in Paths, v \in BOOLEAN : SetFieldTouched(path, v)
    \/ \E path \in Paths, msgs \in ErrorLists : SetFieldErrors(path, msgs)

SpecForm == InitForm /\ [][NextForm]_vars

(***************************************************************************)
(* useForm: setup, mounting, submit and formdata                           *)
(***************************************************************************)
\* ctx.getValidationMode(): 'schema' for a form with a schema
ValidationModes == {"schema", "aggregate"}

\* the context is provided: provide(FormKey, ...)
Provided == formPc \in {"provided", "ready", "mounted"}

\* every form asks for validation on mount
MountHooksAnyMode(mode) == <<"requestValidation">>

\* if (ctx.getValidationMode() === 'schema') onMounted(requestValidation)
MountHooksOf(mode) == IF mode = "schema" THEN <<"requestValidation">> ELSE <<>>

SubmitOp(op) ==
    /\ formLast' = [op |-> op]
    /\ UNCHANGED <<initialValues, heap, valuesRef, originalsRef, touched, errors,
                   formMode, cbVars, radioVars, groupVars, numVars, cfgVars>>

\* useForm reaches provide(FormKey, ...)
ProvideContext ==
    /\ formPc = "setup"
    /\ formPc' = "provided"
    /\ SubmitOp("provide")
    /\ UNCHANGED <<mountHooks, mountRequests, formOut, formData>>

\* useForm reaches the onMounted registration and returns
RegisterMountHook ==
    /\ formPc = "provided"
    /\ formPc' = "ready"
    /\ mountHooks' = mountHooks \o MountHooksOf(formMode)
    /\ SubmitOp("registerHooks")
    /\ UNCHANGED <<mountRequests, formOut, formData>>

\* the component is mounted: the registered hooks run
Mount ==
    /\ formPc = "ready"
    /\ formPc' = "mounted"
    /\ mountRequests' = mountRequests +
           Cardinality({i \in DOMAIN mountHooks : mountHooks[i] = "requestValidation"})
    /\ SubmitOp("mount")
    /\ UNCHANGED <<mountHooks, formOut, formData>>

\* an object's entries, as FormData holds them
Entries(obj) == {<<path, obj[path]>> : path \in DOMAIN obj}
\* what the browser put into the event's FormData: the controls' DOM values
EventEntries == {{}, {<<"a", "dom">>}}

\* clearFormData(formData)
clearFormData(fd) == {}
\* appendToFormData(obj, formData), obj given by its entries
appendToFormData(entries, fd) == fd \cup entries

\* onFormdata(e)
onFormdata(out, fd) ==
    appendToFormData(IF out.set THEN out.entries ELSE Entries(heap[valuesRef]),
                     clearFormData(fd))

\* onSubmit: handleSubmit validates and, when the form is valid, calls back
\* with the output; form.submit() then raises the formdata event
Submit(valid, fd) ==
    /\ formPc = "mounted"
    /\ IF valid
       THEN LET out == [set |-> TRUE, entries |-> Entries(heap[valuesRef])]
            IN  /\ formOut' = out
                /\ formData' = onFormdata(out, fd)
                /\ SubmitOp("submit")
       ELSE /\ UNCHANGED <<formOut, formData>>
            /\ SubmitOp("submitRejected")
    /\ UNCHANGED <<formPc, mountHooks, mountRequests>>

\* a formdata event no handled submission raised (new FormData(form))
FormdataEvent(fd) ==
    /\ formPc = "mounted"
    /\ formData' = onFormdata(formOut, fd)
    /\ SubmitOp("formdata")
    /\ UNCHANGED <<formPc, mountHooks, mountRequests, formOut>>

\* useForm(opts) has created the context, nothing is provided yet
InitSubmit ==
    /\ initialValues \in [Paths -> FormValues]
    /\ originalsRef = 1
    /\ LET c == UseFormValues(<<initialValues>>, 1)
       IN  heap = c.heap /\ valuesRef = c.ref
    /\ touched = [p \in Paths |-> FALSE]
    /\ errors = [p \in Paths |-> <<>>]
    /\ formLast = [op |-> "init"]
    /\ formMode \in ValidationModes
    /\ formPc = "setup"
    /\ mountHooks = <<>>
    /\ mountRequests = 0
    /\ formOut = [set |-> FALSE, entries |-> {}]
    /\ formData = {}
    /\ CfgIdle
    /\ CbIdle
    /\ RadioIdle
    /\ NumIdle

NextSubmit ==
    \/ ProvideContext
    \/ RegisterMountHook
    \/ Mount
    \/ \E valid \in BOOLEAN, fd \in EventEntries : Submit(valid, fd)
    \/ \E fd \in EventEntries : FormdataEvent(fd)
    \/ \E path \in Paths, v \in FormValues : SetFieldValue(path, v)

SpecSubmit == InitSubmit /\ [][NextSubmit]_vars

(***************************************************************************)
(* Checkbox properties                                                     *)
(***************************************************************************)
LastBox == cbLast.box
LastIndeterminate == cbProps[LastBox].indeterminate
\* the values held by the group's array
GroupMembers == IF groupValue.def THEN {groupValue.arr[i] : i \in DOMAIN groupValue.arr} ELSE {}

\* C1: after toggleValue(force) with an explicit boolean force on a checkbox
\* that is not indeterminate, standalone or grouped, isChecked equals force.
C1_ToggleValueForce ==
    (cbLast.op = "toggleValue" /\ cbLast.arg # Omitted /\ ~LastIndeterminate)
        => (checked(LastBox) <=> cbLast.arg = "forceTrue")

\* C2: after setChecked(v), or after assigning v to isChecked, on a checkbox
\* that is not indeterminate, standalone or grouped, isChecked equals v.
C2_SetCheckedSets ==
    (cbLast.op \in {"setChecked", "assignIsChecked"} /\ cbLast.arg # Omitted
        /\ ~LastIndeterminate)
        => (checked(LastBox) <=> cbLast.arg = "forceTrue")

IsToggleEvent ==
    cbLast.op = "click" \/ (cbLast.op = "keydown" /\ cbLast.arg = "Space")

\* C3: a standalone checkbox starts unchecked with fieldValue = falseValue;
\* while neither disabled nor indeterminate every click and every Space
\* keydown flips isChecked, and afterwards fieldValue is trueValue when
\* checked and falseValue when not.
C3_StandaloneToggle ==
    ~hasGroup =>
        /\ cbLast.op = "init" =>
              ~checked(1) /\ cbField[1] = getFalseValue(cbProps[1])
        /\ (IsToggleEvent /\ ~cbProps[1].disabled /\ ~cbProps[1].indeterminate) =>
              /\ checked(1) = ~cbLast.pre
              /\ cbField[1] = IF checked(1) THEN getTrueValue(cbProps[1])
                                           ELSE getFalseValue(cbProps[1])

\* a Space keydown unchecked a standalone checkbox with custom values
C3_Witness ==
    /\ ~hasGroup
    /\ cbLast.op = "keydown" /\ cbLast.arg = "Space"
    /\ ~cbProps[1].disabled /\ ~cbProps[1].indeterminate
    /\ cbLast.pre /\ cbField[1] = "off" /\ cbProps[1].trueValue = "a"

\* C4: while indeterminate is true, no click, Space keydown, toggleValue or
\* setChecked on that checkbox changes its fieldValue, its isChecked or the
\* group's value.
C4_IndeterminateFreezes ==
    [][(/\ cbLast'.op \in {"click", "keydown", "toggleValue", "setChecked", "assignIsChecked"}
        /\ cbProps[cbLast'.box].indeterminate)
        => /\ cbField' = cbField
           /\ groupValue' = groupValue
           /\ \A b \in Boxes : b = cbLast'.box => checked(b)' = checked(b)]_vars

\* a Space keydown reached an indeterminate, enabled, checked checkbox of a group
C4_Witness ==
    /\ hasGroup
    /\ cbLast.op = "keydown" /\ cbLast.arg = "Space"
    /\ LastIndeterminate /\ ~cbProps[LastBox].disabled
    /\ cbLast.pre /\ checked(LastBox)

\* C5: a grouped checkbox is checked exactly when the group's array holds its
\* trueValue; with an undefined or empty group value none is checked.
C5_GroupedChecked ==
    hasGroup =>
        /\ \A b \in Boxes : checked(b) <=> getTrueValue(cbProps[b]) \in GroupMembers
        /\ (~groupValue.def \/ groupValue.arr = <<>>) => \A b \in Boxes : ~checked(b)

\* a toggle checked a checkbox whose trueValue is the second element of the
\* array, behind a value that is not its own
C5_Witness ==
    /\ hasGroup
    /\ cbLast.op = "toggleValue" /\ ~cbLast.pre
    /\ Len(groupValue.arr) = 2
    /\ groupValue.arr[2] = getTrueValue(cbProps[LastBox])
    /\ groupValue.arr[1] # getTrueValue(cbProps[LastBox])
    /\ checked(LastBox)

PreCheckedPos ==
    IF \E i \in DOMAIN radios : RadioValueOf(radios[i]) = radioLast.pre
    THEN CHOOSE i \in DOMAIN radios : RadioValueOf(radios[i]) = radioLast.pre
    ELSE 0

\* position reached from `from` by k steps in direction dir, wrapping
StepPos(from, k, dir) == ((from - 1 + dir * k) % Len(radios)) + 1

\* the nearest enabled radio in direction dir from the checked one
NearestEnabledPos(from, dir) ==
    LET ks == {k \in 1 .. Len(radios) - 1 : radios[StepPos(from, k, dir)] \notin radioDisabled}
        k == CHOOSE x \in ks : \A y \in ks : x <= y
    IN  StepPos(from, k, dir)

OtherEnabled(from) ==
    \E i \in DOMAIN radios : i # from /\ radios[i] \notin radioDisabled

\* C7: with some radio checked and at least one other radio enabled, a
\* 'next' arrow checks the first enabled radio after the checked one in
\* registration order (wrapping), a 'previous' arrow the nearest enabled one
\* before it (wrapping).
C7_ArrowMovesToNearestEnabled ==
    (radioLast.op \in {"next", "previous"} /\ PreCheckedPos > 0 /\ OtherEnabled(PreCheckedPos))
        => radioValue = RadioValueOf(radios[NearestEnabledPos(PreCheckedPos,
                                        IF radioLast.op = "next" THEN 1 ELSE -1)])

\* C8: at most one registered radio can receive focus: the first of the
\* registration list while the group's value is empty, none once the group
\* has a non-empty value.
C8_SingleFocusTarget ==
    /\ Cardinality({r \in Radios : canReceiveFocus(r)}) <= 1
    /\ \A r \in Radios :
          canReceiveFocus(r) <=>
              (radioValue \in {Undefined, ""} /\ radios # <<>> /\ r = Head(radios))

\* after an unmount the new head of a list of two is the focus target
C8_Witness ==
    /\ radioLast.op = "unmount"
    /\ Len(radios) = 2
    /\ radios[1] # 1
    /\ canReceiveFocus(radios[1])
    /\ ~canReceiveFocus(radios[2])

(***************************************************************************)
(* Form properties                                                         *)
(***************************************************************************)
\* the current values of the form
CurrentValues == heap[valuesRef]

\* C9: isDirty is true exactly when the current values differ from the
\* original values: false right after creation, true after setFieldValue
\* changed a field, false again once the field is set back.
C9_DirtyIffChanged ==
    /\ isDirty <=> (CurrentValues # initialValues)
    /\ formLast.op = "init" => ~isDirty

\* setFieldValue put a dirty form back to its original values
C9_Witness ==
    /\ formLast.op = "setFieldValue"
    /\ formLast.preDirty
    /\ ~isDirty
    /\ CurrentValues = initialValues

\* the first message of the field at path, undefined when it has none
FirstMessage(path) == IF errors[path] = <<>> THEN Undefined ELSE Head(errors[path])

\* C10: displayError(path) is the field's first error message when the field
\* is touched and undefined when it is not; getError(path) is the field's
\* first error message, undefined when the field has no errors.
C10_DisplayError ==
    \A path \in Paths :
        /\ getError(path) = FirstMessage(path)
        /\ touched[path] => displayError(path) = FirstMessage(path)
        /\ ~touched[path] => displayError(path) = Undefined

\* a touched field shows the first of its two messages while an untouched
\* field with errors shows none
C10_Witness ==
    /\ formLast.op = "setFieldErrors"
    /\ \E path \in Paths :
          /\ touched[path] /\ Len(errors[path]) = 2
          /\ errors[path][1] # errors[path][2]
          /\ displayError(path) = errors[path][1]
    /\ \E path \in Paths :
          /\ ~touched[path] /\ errors[path] # <<>>
          /\ displayError(path) = Undefined /\ getError(path) # Undefined

\* C11: isValid is true exactly when no field holds an error: false after
\* setFieldErrors(path, non-empty messages), true again once every field's
\* errors are cleared.
C11_ValidIffNoErrors ==
    isValid <=> (\A path \in Paths : Len(errors[path]) = 0)

\* setFieldErrors cleared the last field with errors of an invalid form
C11_Witness ==
    /\ formLast.op = "setFieldErrors"
    /\ ~formLast.preValid
    /\ isValid
    /\ \A path \in Paths : errors[path] = <<>>

\* C12: isTouched is true exactly when at least one field of the touched
\* tree is true: it reflects initialTouched at creation, is true after
\* setFieldTouched(path, true) and false once every field is untouched.
C12_TouchedIffSomeLeaf ==
    isTouched <=> (Cardinality({path \in Paths : touched[path]}) >= 1)

\* setFieldTouched(path, false) untouched the last touched field
C12_Witness ==
    /\ formLast.op = "setFieldTouched"
    /\ formLast.preTouched
    /\ ~isTouched
    /\ \A path \in Paths : ~touched[path]

\* C17: arrow-key handling never calls setChecked on a radio whose
\* isDisabled() is true, whether or not a radio is checked.
C17_ArrowNeverChecksDisabled ==
    radioLast.op \in {"next", "previous"} =>
        \A i \in DOMAIN radioLast.calls : ~RadioIsDisabled(radioLast.calls[i])

\* C18: with no radio checked, a 'next' and a 'previous' arrow both call
\* setChecked on the first registered radio and on no other; with no
\* registered radio an arrow key changes nothing.
C18_ArrowFromNoneChecked ==
    (radioLast.op \in {"next", "previous"} /\ PreCheckedPos = 0) =>
        /\ radios # <<>> => radioLast.calls = <<radios[1]>>
        /\ radios = <<>> => radioLast.calls = <<>> /\ radioValue = radioLast.pre

\* from an empty value, with two radios registered and the first one
\* disabled, a 'next' arrow called setChecked on the first
C18_Witness ==
    /\ radioLast.op = "next"
    /\ isEmpty(radioLast.pre)
    /\ Len(radios) >= 2
    /\ radios[1] \in radioDisabled
    /\ radioLast.calls = <<radios[1]>>
    /\ radioValue = RadioValueOf(radios[1])

\* C19: with dir 'ltr' or unset ArrowDown and ArrowRight are 'next' and
\* ArrowUp and ArrowLeft 'previous'; with dir 'rtl' ArrowDown and ArrowLeft
\* are 'next' and ArrowUp and ArrowRight 'previous'; a handled arrow key
\* has its default prevented; any other key neither prevents default nor
\* changes the group's value.
C19_KeysByDirection ==
    radioLast.op = "keydown" =>
        LET key == radioLast.key
            rtl == radioDir = "rtl"
            isNext == key = "ArrowDown" \/ (key = "ArrowRight" /\ ~rtl) \/ (key = "ArrowLeft" /\ rtl)
            isPrev == key = "ArrowUp" \/ (key = "ArrowLeft" /\ ~rtl) \/ (key = "ArrowRight" /\ rtl)
        IN  /\ ~(isNext /\ isPrev)
            /\ isNext <=> radioLast.handler = "next"
            /\ isPrev <=> radioLast.handler = "previous"
            /\ (isNext \/ isPrev) => radioLast.prevented
            /\ ~(isNext \/ isPrev) =>
                  ~radioLast.prevented /\ radioValue = radioLast.pre /\ radioLast.calls = <<>>

\* in a right-to-left group ArrowLeft moved the selection on to the next radio
C19_Witness ==
    /\ radioLast.op = "keydown"
    /\ radioDir = "rtl"
    /\ radioLast.key = "ArrowLeft"
    /\ radioLast.handler = "next"
    /\ radioLast.prevented
    /\ Len(radios) >= 2
    /\ radioLast.pre = RadioValueOf(radios[1])
    /\ radioValue = RadioValueOf(radios[2])

\* C15: a checkbox whose disabled / aria-disabled binding is true, through
\* its own disabled prop or through its group's, changes neither its
\* checked state nor its fieldValue nor its group's value on a click or a
\* Space keydown.
C15_DisabledIgnoresInput ==
    [][\A b \in Boxes :
          (/\ cbLast'.op \in {"click", "keydown"}
           /\ cbLast'.box = b
           /\ DisabledBinding(b) = "true")
          => /\ cbField' = cbField
             /\ groupValue' = groupValue
             /\ checked(b)' = checked(b)]_vars

\* C16: groupState is 'checked' only when every registered checkbox is
\* checked, 'unchecked' only when none is, and 'mixed' when some but not
\* all of them are.
RegisteredBoxes == {checkboxes[i] : i \in DOMAIN checkboxes}
CheckedBoxes == {b \in RegisteredBoxes : checked(b)}
C16_GroupStateMatchesBoxes ==
    /\ groupState = "checked" => CheckedBoxes = RegisteredBoxes
    /\ groupState = "unchecked" => CheckedBoxes = {}
    /\ (CheckedBoxes # {} /\ CheckedBoxes # RegisteredBoxes) => groupState = "mixed"

\* C20: a group's registry (the radios of a radio group, the checkboxes of
\* a checkbox group) holds exactly the items registered and not yet
\* unmounted, each once and in registration order; unmounting an item
\* removes that item only and keeps the order of the others.
NoDuplicates(list) == \A i, j \in DOMAIN list : list[i] = list[j] => i = j
Elements(list) == {list[i] : i \in DOMAIN list}
\* list without item x, the others in their order
RECURSIVE Without(_, _)
Without(list, x) ==
    IF list = <<>> THEN <<>>
    ELSE IF Head(list) = x THEN Without(Tail(list), x)
    ELSE <<Head(list)>> \o Without(Tail(list), x)

RadioGroupAriaInvalid == AriaInvalid(radioError)
NumberInputAriaInvalid == AriaInvalid(numError)
NonEmptyMessage(m) == m \in ValidityMessages \ {""}
C13_AriaInvalidIffError ==
    /\ RadioGroupAriaInvalid = (IF NonEmptyMessage(radioError) THEN "true" ELSE Undefined)
    /\ NumberInputAriaInvalid = (IF NonEmptyMessage(numError) THEN "true" ELSE Undefined)
    /\ radioLast.op = "setValidity" =>
          RadioGroupAriaInvalid = (IF radioLast.message = "" THEN Undefined ELSE "true")
    /\ numLast.op = "setValidity" =>
          NumberInputAriaInvalid = (IF numLast.message = "" THEN Undefined ELSE "true")

\* the radio group was just given a message and is invalid, the number
\* field was just given '' and is not
C13_Witness ==
    /\ radioLast.op = "setValidity"
    /\ radioLast.message = "Required"
    /\ RadioGroupAriaInvalid = "true"
    /\ numLast.op = "setValidity"
    /\ numLast.message = ""
    /\ NumberInputAriaInvalid = Undefined

\* C14: after a change event on a number field with min and max set,
\* min <= max, and a text that parses to a number, fieldValue lies in
\* [min, max] and equals the parsed number when that is in the range;
\* increment and decrement leave fieldValue in [min, max] as well.
RangeSet == numMin.set /\ numMax.set /\ numMin.n <= numMax.n
InRange(n) == numMin.n <= n /\ n <= numMax.n
C21_HtmlValidationOption ==
    /\ isHtmlValidationDisabled \in JsBooleans
    /\ formHtmlOpt # Undefined => isHtmlValidationDisabled = formHtmlOpt
    /\ formHtmlOpt = Undefined =>
          isHtmlValidationDisabled = DeepView(getConfig).disableHtmlValidation
    /\ (formHtmlOpt = Undefined /\ cfgLast.op = "init") =>
          isHtmlValidationDisabled = "false"

\* C26: configure(partial) changes the keys present in partial and no
\* other; getConfig() returns the defaults overridden by the calls in
\* order; a config object obtained from getConfig() before a configure call
\* is not altered by it.
Override(old, new) == IF new = Absent THEN old ELSE new
C22_SchemaValidatesOnMount ==
    /\ formPc = "mounted" => mountRequests = (IF formMode = "schema" THEN 1 ELSE 0)
    /\ formPc \in {"setup", "provided", "ready"} => mountRequests = 0
    /\ mountRequests > 0 => Provided

\* a schema form is mounted and has asked for validation once
C22_Witness ==
    /\ formMode = "schema"
    /\ formPc = "mounted"
    /\ formLast.op = "mount"
    /\ mountRequests = 1

\* C23: the FormData of a formdata event is cleared and then holds exactly
\* the output of the submission that raised the event, or the current
\* values when no handled submission raised it; never the output of an
\* earlier submission once the values have changed.
C23_FormDataIsCurrent ==
    formLast.op \in {"submit", "formdata"} => formData = Entries(CurrentValues)

\* C24: the beforeinput handler prevents the event exactly when it carries
\* data and the text predicted by replacing the selection with that data is
\* no valid number part; an event without data is never prevented; the
\* handler never changes fieldValue.
SelectionReplaced(text, data, from, to) ==
    [i \in 1 .. (from + Len(data) + (Len(text) - to)) |->
        IF i <= from THEN text[i]
        ELSE IF i <= from + Len(data) THEN data[i - from]
        ELSE text[i - from - Len(data) + to]]
C24_BeforeinputPrevents ==
    /\ [](numLast.op = "beforeinput" =>
            /\ numLast.prevented <=>
                  (/\ ~numLast.data.null
                   /\ ~isValidNumberPart(SelectionReplaced(numLast.text, numLast.data.chars,
                          numLast.selectionStart, numLast.selectionEnd)))
            /\ numLast.data.null => ~numLast.prevented)
    /\ [][numLast'.op = "beforeinput" => numValue' = numValue]_vars

\* a letter typed over a selected digit in the middle was prevented, with a
\* fieldValue set by an earlier change event
C24_Witness ==
    /\ numLast.op = "beforeinput"
    /\ numLast.prevented
    /\ numLast.text = <<"-", "1", "1">>
    /\ numLast.selectionStart = 1
    /\ numLast.selectionEnd = 2
    /\ numLast.data = [null |-> FALSE, chars |-> <<"-">>]
    /\ numText = numLast.text
    /\ numValue.kind = "nan"

\* C25: the input's value binding is '' when fieldValue is NaN, undefined,
\* null or empty and the parser's formatting of fieldValue otherwise; after
\* a change event and the next tick the element's text equals it.
InputValueBinding == formattedText
C25_DisplayedText ==
    /\ numValue.kind \in {"nan", "undef"} => InputValueBinding = <<>>
    /\ numValue.kind = "num" => InputValueBinding = NumFormat(numValue.n)
    /\ numLast.op = "tick" => numText = InputValueBinding

\* text that is no number was typed: the value is NaN and the next tick
\* emptied the element
C25_Witness ==
    /\ numLast.op = "tick"
    /\ numLast.text = <<"a">>
    /\ numValue = NaN
    /\ numText = <<>>

====
